---- MODULE Spec2Model ----
(***************************************************************************)
(* The two packaging scripts of ml-project-template:                       *)
(*   variant A  project_files/vanilla/setup.py  (version read from         *)
(*              project/__init__.py with a regular expression)             *)
(*   variant B  setup.py                        (version hard-coded)       *)
(* Each script is a straight line of `with open(...)` blocks followed by   *)
(* one call of setuptools.setup().  A text is a sequence of one-character  *)
(* strings; a file holds the characters it decodes to, before the newline  *)
(* translation of Python's text mode.                                      *)
(***************************************************************************)
EXTENDS Naturals, Sequences, FiniteSets

VARIABLES
    fs,                \* the working directory: path -> file
    pc,                \* per script: the statement it is at
    exc,               \* per script: the exception raised, or "none"
    handles,           \* per script: the paths of its open file objects
    opened,            \* per script: the paths handed to open(), in order
    long_description,  \* per script: the module-level name, <<>> while unbound
    requirements,
    requirements_dev,
    version_re,
    version,
    setup_calls        \* per script: the keyword records passed to setup()

vars ==
    <<fs, pc, exc, handles, opened, long_description, requirements,
      requirements_dev, version_re, version, setup_calls>>

locals == <<long_description, requirements, requirements_dev, version_re, version>>

Variants == {"A", "B"}

(* ------------------------------ characters ------------------------------ *)

LF == "\n"
CR == "\r"
\* Form feed stands for every character that str.splitlines() also breaks at
\* and that text-mode reading leaves in place: VT, FF, FS, GS, RS, NEL, LS, PS.
FF == "\f"
QUOTE == "\""

\* A module-level name before its assignment, and after it.
Unbound == <<>>
Bound(x) == <<x>>
ValueOf(b) == b[1]

Min(S) == CHOOSE x \in S : \A y \in S : x <= y

(* -------------------------------- paths --------------------------------- *)

README == "README.md"
REQ == "requirements.txt"
DEV == "requirements-dev.txt"
INITPY == "project/__init__.py"

Paths == {README, REQ, DEV, INITPY}

\* A faulty variant: the requirements read before the description.
FilesRequirementsFirst(v) ==
    IF v = "A" THEN <<REQ, README, DEV, INITPY>> ELSE <<REQ, README, DEV>>

\* The files a script opens, in the order of its `with open` blocks.
Files(v) ==
    IF v = "A" THEN <<README, REQ, DEV, INITPY>> ELSE <<README, REQ, DEV>>

(* ------------------------- files and text mode -------------------------- *)

\* open(path, "r", encoding="utf-8") raises OSError for these kinds of file.
OpenErrorOf(file) ==
    IF file.kind = "absent" THEN "FileNotFoundError"
    ELSE IF file.kind = "denied" THEN "PermissionError"
    ELSE "none"

\* Mode "w" would truncate the file on open.
OpenTruncates(f, path) ==
    [f EXCEPT ![path] = [kind |-> f[path].kind, data |-> <<>>]]

\* The directory after open(path, "r", ...): mode "r" leaves every file alone.
FsAfterOpen(f, path) == f

\* Universal newlines (newline=None): "\r\n" and a lone "\r" are read as "\n".
RECURSIVE Decode(_)
Decode(raw) ==
    LET C == {i \in 1..Len(raw) : raw[i] = CR}
    IN  IF C = {} THEN raw
        ELSE LET i == Min(C)
                 n == IF i < Len(raw) /\ raw[i + 1] = LF THEN i + 2 ELSE i + 1
             IN  SubSeq(raw, 1, i - 1) \o <<LF>> \o Decode(SubSeq(raw, n, Len(raw)))

\* f.read() on an open text file: the whole decoded text.
ReadText(file) == Decode(file.data)

(* ---------------------------- str.splitlines ---------------------------- *)

LineBoundaries == {LF, CR, FF}

\* s.splitlines(): the pieces of s between line boundaries, "\r\n" counting as
\* one boundary; a boundary at the very end opens no further line.
RECURSIVE splitlines(_)
splitlines(s) ==
    LET B == {i \in 1..Len(s) : s[i] \in LineBoundaries}
    IN  IF s = <<>> THEN <<>>
        ELSE IF B = {} THEN <<s>>
        ELSE LET i == Min(B)
                 n == IF s[i] = CR /\ i < Len(s) /\ s[i + 1] = LF THEN i + 2 ELSE i + 1
             IN  <<SubSeq(s, 1, i - 1)>> \o splitlines(SubSeq(s, n, Len(s)))

(* ------------------------------ re.search ------------------------------- *)

\* r"^__version__ = \"" : the literal part of the pattern, opening quote included.
VersionPrefix ==
    <<"_", "_", "v", "e", "r", "s", "i", "o", "n", "_", "_", " ", "=", " ", QUOTE>>

\* "^" under re.MULTILINE: the start of the text or just after a "\n".
AtLineStart(s, i) == i = 1 \/ s[i - 1] = LF

HasPrefixAt(s, i) ==
    /\ i + Len(VersionPrefix) - 1 <= Len(s)
    /\ \A j \in 1..Len(VersionPrefix) : s[i + j - 1] = VersionPrefix[j]

\* ([^\"]*)\" : the group runs to the next double quote, across line ends.
ClosingQuotes(s, i) == {j \in (i + Len(VersionPrefix))..Len(s) : s[j] = QUOTE}

MatchStarts(s) ==
    {i \in 1..Len(s) : AtLineStart(s, i) /\ HasPrefixAt(s, i) /\ ClosingQuotes(s, i) /= {}}

None == [found |-> FALSE, start |-> 0, group1 |-> <<>>]

\* A faulty capture: the quotes taken with the value.
CaptureWithQuotes(s, i, j) == SubSeq(s, i + Len(VersionPrefix) - 1, j)

\* group(1) of the match that starts at i and whose closing quote is at j.
Capture(s, i, j) == SubSeq(s, i + Len(VersionPrefix), j - 1)

\* re.search(pattern, s, re.MULTILINE): the leftmost match, or None.
search(s) ==
    IF MatchStarts(s) = {} THEN None
    ELSE LET i == Min(MatchStarts(s))
             j == Min(ClosingQuotes(s, i))
         IN  [found |-> TRUE, start |-> i, group1 |-> Capture(s, i, j)]

(* ------------------------------ statements ------------------------------ *)

At(a, k) == [at |-> a, k |-> k]

\* The statement after the k-th `with` block of script v.
AfterWith(v, k) ==
    IF k < Len(Files(v)) THEN At("open", k + 1)
    ELSE IF v = "A" THEN At("assert", 0)
    ELSE At("setup", 0)

\* A faulty variant: the error of open() swallowed, the script goes on.
OnOpenErrorIgnored(v, k) == AfterWith(v, k)

\* An exception of open() is not caught: the script ends there.
OnOpenError(v, k) == At("halted", k)

\* A faulty variant: the file object is left open.
HandlesLeftOpen(h, path) == h

\* __exit__ of the file object closes it, with or without an exception.
HandlesAfterExit(h, path) == h \ {path}

\* A faulty variant: assertions compiled away.
AssertSkipped(m) == TRUE

\* assert version_re is not None
AssertHolds(m) == m.found

\* A faulty variant: the "dev" extra wired to the install requirements, one
\* literal changed in variant B.
SetupArgsMiswired(v) ==
    IF v = "A" THEN
        [name |-> "ml-project",
         version |-> ValueOf(version[v]),
         description |-> "Template repository for ML projects",
         author |-> "Benjamin Bolte",
         url |-> "https://github.com/codekansas/ml-project-template",
         long_description |-> ValueOf(long_description[v]),
         long_description_content_type |-> "text/markdown",
         python_requires |-> ">=3.10",
         setup_requires |-> <<"cmake", "mypy", "pybind11", "torch">>,
         install_requires |-> ValueOf(requirements[v]),
         tests_require |-> ValueOf(requirements_dev[v]),
         extras_require |-> [dev |-> ValueOf(requirements[v])]]
    ELSE
        [name |-> "ml-project",
         version |-> <<"0", ".", "0", ".", "1">>,
         description |-> "Empty template repository for ML projects",
         author |-> "Benjamin Bolte",
         url |-> "https://github.com/codekansas/ml-starter",
         long_description |-> ValueOf(long_description[v]),
         long_description_content_type |-> "text/markdown",
         python_requires |-> ">=3.8",
         install_requires |-> ValueOf(requirements[v]),
         tests_require |-> ValueOf(requirements_dev[v]),
         extras_require |-> [dev |-> ValueOf(requirements[v])]]

\* The keyword arguments of the setup(...) call of script v.
SetupArgs(v) ==
    IF v = "A" THEN
        [name |-> "ml-project",
         version |-> ValueOf(version[v]),
         description |-> "Template repository for ML projects",
         author |-> "Benjamin Bolte",
         url |-> "https://github.com/codekansas/ml-project-template",
         long_description |-> ValueOf(long_description[v]),
         long_description_content_type |-> "text/markdown",
         python_requires |-> ">=3.10",
         setup_requires |-> <<"cmake", "mypy", "pybind11", "torch">>,
         install_requires |-> ValueOf(requirements[v]),
         tests_require |-> ValueOf(requirements_dev[v]),
         extras_require |-> [dev |-> ValueOf(requirements_dev[v])]]
    ELSE
        [name |-> "ml-project",
         version |-> <<"0", ".", "0", ".", "1">>,
         description |-> "Empty template repository for ML projects",
         author |-> "Benjamin Bolte",
         url |-> "https://github.com/codekansas/ml-starter",
         long_description |-> ValueOf(long_description[v]),
         long_description_content_type |-> "text/markdown",
         python_requires |-> ">=3.10",
         install_requires |-> ValueOf(requirements[v]),
         tests_require |-> ValueOf(requirements_dev[v]),
         extras_require |-> [dev |-> ValueOf(requirements_dev[v])]]

\* The module-level names the setup(...) call of script v reads.
SetupReads(v) ==
    <<long_description[v], requirements[v], requirements_dev[v]>>
        \o (IF v = "A" THEN <<version[v]>> ELSE <<>>)

(* ------------------------------- actions -------------------------------- *)

\* with open(path, "r", encoding="utf-8") as f:   -- open() succeeds
WithOpen(v) ==
    LET k == pc[v].k
        path == Files(v)[k]
    IN  /\ pc[v].at = "open"
        /\ OpenErrorOf(fs[path]) = "none"
        /\ fs' = FsAfterOpen(fs, path)
        /\ handles' = [handles EXCEPT ![v] = @ \cup {path}]
        /\ opened' = [opened EXCEPT ![v] = Append(@, path)]
        /\ pc' = [pc EXCEPT ![v] = At("body", k)]
        /\ UNCHANGED <<exc, locals, setup_calls>>

\* with open(path, "r", encoding="utf-8") as f:   -- open() raises OSError
WithOpenError(v) ==
    LET k == pc[v].k
        path == Files(v)[k]
    IN  /\ pc[v].at = "open"
        /\ OpenErrorOf(fs[path]) /= "none"
        /\ opened' = [opened EXCEPT ![v] = Append(@, path)]
        /\ pc' = [pc EXCEPT ![v] = OnOpenError(v, k)]
        /\ exc' = [exc EXCEPT ![v] =
                      IF OnOpenError(v, k).at = "halted" THEN OpenErrorOf(fs[path]) ELSE @]
        /\ UNCHANGED <<fs, handles, locals, setup_calls>>

\* The body of the k-th `with` block: f.read() and the assignment.
WithBody(v) ==
    LET k == pc[v].k
        path == Files(v)[k]
        text == ReadText(fs[path])
    IN  /\ pc[v].at = "body"
        /\ fs[path].kind = "ok"
        /\ long_description' =
               IF k = 1 THEN [long_description EXCEPT ![v] = Bound(text)]
               ELSE long_description
        /\ requirements' =
               IF k = 2 THEN [requirements EXCEPT ![v] = Bound(splitlines(text))]
               ELSE requirements
        /\ requirements_dev' =
               IF k = 3 THEN [requirements_dev EXCEPT ![v] = Bound(splitlines(text))]
               ELSE requirements_dev
        /\ version_re' =
               IF k = 4 THEN [version_re EXCEPT ![v] = Bound(search(text))]
               ELSE version_re
        /\ pc' = [pc EXCEPT ![v] = At("exit", k)]
        /\ UNCHANGED <<fs, exc, handles, opened, version, setup_calls>>

\* The body of the k-th `with` block: f.read() raises UnicodeDecodeError.
WithBodyError(v) ==
    LET k == pc[v].k
        path == Files(v)[k]
    IN  /\ pc[v].at = "body"
        /\ fs[path].kind = "undecodable"
        /\ exc' = [exc EXCEPT ![v] = "UnicodeDecodeError"]
        /\ pc' = [pc EXCEPT ![v] = At("exit", k)]
        /\ UNCHANGED <<fs, handles, opened, locals, setup_calls>>

\* Leaving the k-th `with` block: the file is closed; a pending exception
\* goes on and ends the script.
WithExit(v) ==
    LET k == pc[v].k
        path == Files(v)[k]
    IN  /\ pc[v].at = "exit"
        /\ handles' = [handles EXCEPT ![v] = HandlesAfterExit(@, path)]
        /\ pc' = [pc EXCEPT ![v] =
                     IF exc[v] = "none" THEN AfterWith(v, k) ELSE At("halted", k)]
        /\ UNCHANGED <<fs, exc, opened, locals, setup_calls>>

\* assert version_re is not None, "Could not find version in ..."  -- holds
AssertPass(v) ==
    /\ pc[v].at = "assert"
    /\ AssertHolds(ValueOf(version_re[v]))
    /\ pc' = [pc EXCEPT ![v] = At("group", 0)]
    /\ UNCHANGED <<fs, exc, handles, opened, locals, setup_calls>>

\* assert version_re is not None, "Could not find version in ..."  -- fails
AssertFail(v) ==
    /\ pc[v].at = "assert"
    /\ ~AssertHolds(ValueOf(version_re[v]))
    /\ exc' = [exc EXCEPT ![v] = "AssertionError"]
    /\ pc' = [pc EXCEPT ![v] = At("halted", 0)]
    /\ UNCHANGED <<fs, handles, opened, locals, setup_calls>>

\* version: str = version_re.group(1)   (None has no attribute group)
Group(v) ==
    LET m == ValueOf(version_re[v])
    IN  /\ pc[v].at = "group"
        /\ version' = IF m.found THEN [version EXCEPT ![v] = Bound(m.group1)] ELSE version
        /\ exc' = IF m.found THEN exc ELSE [exc EXCEPT ![v] = "AttributeError"]
        /\ pc' = [pc EXCEPT ![v] = IF m.found THEN At("setup", 0) ELSE At("halted", 0)]
        /\ UNCHANGED <<fs, handles, opened, long_description, requirements,
                       requirements_dev, version_re, setup_calls>>

\* setup(name=..., ...): the arguments are evaluated (an unbound name raises
\* NameError), then setup is called and the script ends.
Setup(v) ==
    LET ready == \A i \in 1..Len(SetupReads(v)) : SetupReads(v)[i] /= Unbound
    IN  /\ pc[v].at = "setup"
        /\ setup_calls' =
               IF ready THEN [setup_calls EXCEPT ![v] = Append(@, SetupArgs(v))]
               ELSE setup_calls
        /\ exc' = IF ready THEN exc ELSE [exc EXCEPT ![v] = "NameError"]
        /\ pc' = [pc EXCEPT ![v] = IF ready THEN At("done", 0) ELSE At("halted", 0)]
        /\ UNCHANGED <<fs, handles, opened, locals>>

Next ==
    \E v \in Variants :
        \/ WithOpen(v)
        \/ WithOpenError(v)
        \/ WithBody(v)
        \/ WithBodyError(v)
        \/ WithExit(v)
        \/ AssertPass(v)
        \/ AssertFail(v)
        \/ Group(v)
        \/ Setup(v)

(* ------------------------- working directories -------------------------- *)

Ok(data) == [kind |-> "ok", data |-> data]
Absent == [kind |-> "absent", data |-> <<>>]
Denied == [kind |-> "denied", data |-> <<>>]
Undecodable == [kind |-> "undecodable", data |-> <<>>]

\* __version__ = "<value>"
Decl(value) == VersionPrefix \o value \o <<QUOTE>>

V123 == <<"1", ".", "2", ".", "3">>
V0102 == <<"0", ".", "1", "0", ".", "2">>
V999 == <<"9", ".", "9", ".", "9">>
OtherLine == <<"x", " ", "=", " ", "1">>

ReadmeFiles ==
    {Ok(<<"#", " ", "T">>), Ok(<<"#", CR, LF, "T", LF>>), Absent, Undecodable}

ReqFiles ==
    {Ok(<<>>), Ok(<<"n", LF, "r">>), Ok(<<"n", LF, LF, "n", CR, LF>>),
     Ok(<<"n", FF, "r", LF>>), Denied, Undecodable}

DevFiles ==
    {Ok(<<"p">>), Ok(<<"p", LF, "p", LF>>), Ok(<<LF>>), Absent, Undecodable}

InitFiles ==
    {Ok(Decl(V123) \o <<LF>>),
     Ok(OtherLine \o <<LF>> \o Decl(V0102) \o <<CR, LF>> \o Decl(V999) \o <<LF>>),
     Ok(OtherLine \o <<LF>>),
     Ok(<<" ">> \o Decl(V999) \o <<LF>>),
     Absent, Undecodable}

\* Which of the two scripts are run in the directory.
Runs == {{"A"}, {"B"}, {"A", "B"}}

InitScripts(run) ==
    /\ pc = [v \in Variants |-> IF v \in run THEN At("open", 1) ELSE At("notrun", 0)]
    /\ exc = [v \in Variants |-> "none"]
    /\ handles = [v \in Variants |-> {}]
    /\ opened = [v \in Variants |-> <<>>]
    /\ long_description = [v \in Variants |-> Unbound]
    /\ requirements = [v \in Variants |-> Unbound]
    /\ requirements_dev = [v \in Variants |-> Unbound]
    /\ version_re = [v \in Variants |-> Unbound]
    /\ version = [v \in Variants |-> Unbound]
    /\ setup_calls = [v \in Variants |-> <<>>]

Init ==
    /\ \E r \in ReadmeFiles, q \in ReqFiles, d \in DevFiles, i \in InitFiles :
           fs = [p \in Paths |->
                    IF p = README THEN r
                    ELSE IF p = REQ THEN q
                    ELSE IF p = DEV THEN d
                    ELSE i]
    /\ \E run \in Runs : InitScripts(run)

Spec == Init /\ [][Next]_vars

(* ------------- a second family of directories: version files ------------ *)

MaxInitLines == 3

\* Lines a project/__init__.py is put together from.
InitLines ==
    {Decl(V123),
     Decl(V0102),
     <<" ">> \o Decl(V999),
     <<"#", " ">> \o Decl(V999),
     VersionPrefix,
     OtherLine,
     Decl(<<"1", ".", "2">>),
     Decl(<<" ", "1", ".", "2", ".", "3", " ">>) \o <<" ", "#", QUOTE>>,
     <<QUOTE>>}

RECURSIVE JoinLines(_, _)
JoinLines(ls, eol) ==
    IF ls = <<>> THEN <<>> ELSE ls[1] \o eol \o JoinLines(Tail(ls), eol)

VersionFiles ==
    {Ok(JoinLines(ls, eol)) :
        ls \in UNION {[1..n -> InitLines] : n \in 0..MaxInitLines},
        eol \in {<<LF>>, <<CR, LF>>}}

InitVersion ==
    /\ \/ \E i \in VersionFiles :
              fs = [p \in Paths |->
                       IF p = README THEN Ok(<<"#", " ", "T">>)
                       ELSE IF p = REQ THEN Ok(<<"n", LF, "r">>)
                       ELSE IF p = DEV THEN Ok(<<"p">>)
                       ELSE i]
       \/ \E r \in {Absent, Undecodable} :
              fs = [p \in Paths |->
                       IF p = README THEN r
                       ELSE IF p = REQ THEN Ok(<<"n", LF, "r">>)
                       ELSE IF p = DEV THEN Ok(<<"p">>)
                       ELSE Ok(Decl(V123) \o <<LF>>)]
    /\ InitScripts({"A"})

SpecVersion == InitVersion /\ [][Next]_vars

(* ----------- a third family of directories: requirement files ----------- *)

MaxReqLen == 3

ReqAlphabet == {"n", LF, CR, FF}

ReqTexts == UNION {[1..n -> ReqAlphabet] : n \in 0..MaxReqLen}

InitLinesOfFiles ==
    /\ \/ \E t \in ReqTexts, swap \in BOOLEAN, i \in {Ok(Decl(V123) \o <<LF>>), Ok(OtherLine)} :
              fs = [p \in Paths |->
                       IF p = README THEN Ok(<<"#", " ", "T">>)
                       ELSE IF p = REQ THEN (IF swap THEN Ok(<<"p", LF, "p">>) ELSE Ok(t))
                       ELSE IF p = DEV THEN (IF swap THEN Ok(t) ELSE Ok(<<"p", LF, "p">>))
                       ELSE i]
       \/ \E q \in {Absent, Undecodable} :
              fs = [p \in Paths |->
                       IF p = README THEN Ok(<<"#", " ", "T">>)
                       ELSE IF p = REQ THEN q
                       ELSE IF p = DEV THEN Ok(<<"p">>)
                       ELSE Ok(Decl(V123) \o <<LF>>)]
    /\ \E run \in {{"A"}, {"B"}} : InitScripts(run)

SpecLines == InitLinesOfFiles /\ [][Next]_vars


(* ======================================================================== *)
(*                               properties                                 *)
(* ======================================================================== *)

Ran(v) == pc[v].at /= "notrun"
Called(v) == setup_calls[v] /= <<>>
Readable(p) == fs[p].kind = "ok"
AllReadable(v) == \A k \in 1..Len(Files(v)) : Readable(Files(v)[k])
IsPrefix(a, b) == Len(a) <= Len(b) /\ a = SubSeq(b, 1, Len(a))

\* The lines of a file as a text file has them: each ended by "\n", "\r\n" or
\* "\r"; characters after the last terminator form a last line.
LineEnds(raw) ==
    {i \in 1..Len(raw) :
        \/ raw[i] = LF
        \/ raw[i] = CR /\ ~(i < Len(raw) /\ raw[i + 1] = LF)}

NthLineEnd(raw, n) ==
    CHOOSE e \in LineEnds(raw) : Cardinality({x \in LineEnds(raw) : x < e}) = n - 1

FileLines(raw) ==
    LET ends == Cardinality(LineEnds(raw))
        count == IF raw /= <<>> /\ Len(raw) \notin LineEnds(raw) THEN ends + 1 ELSE ends
        first(n) == IF n = 1 THEN 1 ELSE NthLineEnd(raw, n - 1) + 1
        last(n) ==
            IF n > ends THEN Len(raw)
            ELSE LET e == NthLineEnd(raw, n)
                 IN  IF raw[e] = LF /\ e > 1 /\ raw[e - 1] = CR THEN e - 2 ELSE e - 1
    IN  [n \in 1..count |-> SubSeq(raw, first(n), last(n))]

\* The order in which the specification has the files read.
ReadOrder(v) ==
    <<"README.md", "requirements.txt", "requirements-dev.txt">>
        \o (IF v = "A" THEN <<"project/__init__.py">> ELSE <<>>)

OSErrors == {"FileNotFoundError", "PermissionError"}

\* C1: in a directory whose input files are all readable (variant A: with a
\* version line in project/__init__.py) the script does not fail, calls
\* setup() once, and install_requires and tests_require are exactly the lines
\* of requirements.txt and requirements-dev.txt, in order.
C1_RequirementListsAreFileLines ==
    \A v \in Variants :
        (Ran(v) /\ AllReadable(v) /\ (v = "A" => search(ReadText(fs[INITPY])).found)) =>
            /\ pc[v].at /= "halted"
            /\ Len(setup_calls[v]) <= 1
            /\ pc[v].at = "done" =>
                   /\ Len(setup_calls[v]) = 1
                   /\ setup_calls[v][1].install_requires = FileLines(fs[REQ].data)
                   /\ setup_calls[v][1].tests_require = FileLines(fs[DEV].data)

HasNoFormFeed(p) == \A i \in 1..Len(fs[p].data) : fs[p].data[i] /= FF

\* C1 kept to requirement files that hold none of the characters FF stands
\* for: there the lists are the lines of the files.
ListsAreFileLinesWithoutFormFeed ==
    \A v \in Variants :
        (/\ Ran(v) /\ AllReadable(v) /\ (v = "A" => search(ReadText(fs[INITPY])).found)
         /\ HasNoFormFeed(REQ) /\ HasNoFormFeed(DEV)) =>
            /\ pc[v].at /= "halted"
            /\ Len(setup_calls[v]) <= 1
            /\ pc[v].at = "done" =>
                   /\ Len(setup_calls[v]) = 1
                   /\ setup_calls[v][1].install_requires = FileLines(fs[REQ].data)
                   /\ setup_calls[v][1].tests_require = FileLines(fs[DEV].data)

\* C3: variant A, project/__init__.py readable and the pattern matching nowhere
\* in it: setup() is never called, no version is ever bound, and when the
\* script reaches the version file it ends with AssertionError.
C3_NoMatchHaltsWithAssertion ==
    (Ran("A") /\ Readable(INITPY) /\ MatchStarts(ReadText(fs[INITPY])) = {}) =>
        /\ setup_calls["A"] = <<>>
        /\ version["A"] = Unbound
        /\ pc["A"].at \notin {"group", "setup", "done"}
        /\ (pc["A"].at = "halted" /\ AllReadable("A")) =>
               /\ exc["A"] = "AssertionError"
               /\ opened["A"] = ReadOrder("A")
               /\ handles["A"] = {}

C3_Witness ==
    /\ pc["A"].at = "halted"
    /\ exc["A"] = "AssertionError"
    /\ fs[INITPY] = Ok(JoinLines(<<OtherLine, <<" ">> \o Decl(V999), VersionPrefix>>, <<LF>>))
    /\ setup_calls["A"] = <<>>

\* C4: a required file that is absent or cannot be opened: setup() is never
\* called; when it is the first file that is not readable, the script ends at
\* its open() with that OSError, having opened no later file and no file
\* twice; with README.md absent nothing else is opened and no name is bound.
C4_MissingFileHalts ==
    \A v \in Variants : \A k \in 1..Len(ReadOrder(v)) :
        (Ran(v) /\ fs[ReadOrder(v)[k]].kind \in {"absent", "denied"}) =>
            /\ setup_calls[v] = <<>>
            /\ pc[v].at /= "done"
            /\ (\A j \in 1..(k - 1) : Readable(ReadOrder(v)[j])) =>
                   /\ IsPrefix(opened[v], SubSeq(ReadOrder(v), 1, k))
                   /\ pc[v].at = "halted" =>
                          /\ exc[v] = (IF fs[ReadOrder(v)[k]].kind = "absent"
                                       THEN "FileNotFoundError" ELSE "PermissionError")
                          /\ opened[v] = SubSeq(ReadOrder(v), 1, k)
                          /\ handles[v] = {}
            /\ k = 1 =>
                   /\ long_description[v] = Unbound
                   /\ requirements[v] = Unbound
                   /\ requirements_dev[v] = Unbound
                   /\ version_re[v] = Unbound
                   /\ version[v] = Unbound

C4_Witness ==
    /\ pc["A"].at = "halted"
    /\ exc["A"] = "FileNotFoundError"
    /\ opened["A"] = ReadOrder("A")
    /\ fs[INITPY].kind = "absent"
    /\ setup_calls["A"] = <<>>

\* C5: every record passed to setup() has extras_require with the one key
\* "dev", whose value is the tests_require list, which is the list read from
\* requirements-dev.txt; install_requires is the list read from
\* requirements.txt; long_description is the whole text of README.md.
C5_RecordWiring ==
    \A v \in Variants : \A n \in 1..Len(setup_calls[v]) :
        LET r == setup_calls[v][n]
        IN  /\ DOMAIN r.extras_require = {"dev"}
            /\ r.extras_require.dev = r.tests_require
            /\ r.tests_require = splitlines(ReadText(fs[DEV]))
            /\ r.install_requires = splitlines(ReadText(fs[REQ]))
            /\ r.long_description = ReadText(fs[README])

C5_Witness ==
    /\ Called("A") /\ Called("B")
    /\ setup_calls["B"][1].install_requires = << <<"n">>, <<>>, <<"n">> >>
    /\ setup_calls["B"][1].extras_require.dev = << <<"p">>, <<"p">> >>
    /\ setup_calls["A"][1].long_description = <<"#", LF, "T", LF>>

\* C6 as stated: run in the same directory, the two records agree on name,
\* description, author, url, long_description, long_description_content_type,
\* python_requires, install_requires, tests_require and extras_require.
C6_AllOtherFieldsEqual ==
    (Called("A") /\ Called("B")) =>
        LET a == setup_calls["A"][1]
            b == setup_calls["B"][1]
        IN  /\ a.name = b.name
            /\ a.description = b.description
            /\ a.author = b.author
            /\ a.url = b.url
            /\ a.long_description = b.long_description
            /\ a.long_description_content_type = b.long_description_content_type
            /\ a.python_requires = b.python_requires
            /\ a.install_requires = b.install_requires
            /\ a.tests_require = b.tests_require
            /\ a.extras_require = b.extras_require

\* C6 amended: the two records also differ in the description and url
\* literals; setup_requires is the one field only variant A has, and name,
\* author, long_description, long_description_content_type, python_requires,
\* install_requires, tests_require and extras_require are equal.
C6_FieldsEqualButDescriptionAndUrl ==
    (Called("A") /\ Called("B")) =>
        LET a == setup_calls["A"][1]
            b == setup_calls["B"][1]
        IN  /\ DOMAIN a = DOMAIN b \cup {"setup_requires"}
            /\ "setup_requires" \notin DOMAIN b
            /\ a.description /= b.description
            /\ a.url /= b.url
            /\ a.name = b.name
            /\ a.author = b.author
            /\ a.long_description = b.long_description
            /\ a.long_description_content_type = b.long_description_content_type
            /\ a.python_requires = b.python_requires
            /\ a.install_requires = b.install_requires
            /\ a.tests_require = b.tests_require
            /\ a.extras_require = b.extras_require

C6_Witness ==
    /\ Called("A") /\ Called("B")
    /\ setup_calls["A"][1].version = V0102
    /\ setup_calls["B"][1].version = <<"0", ".", "0", ".", "1">>
    /\ setup_calls["A"][1].install_requires = << <<"n">>, <<"r">> >>

\* C8: a script holds at most one open file; a file is open only inside its
\* own `with` block, so none is open when the next is opened, when the
\* assertion is evaluated, when setup() is called or when the script has ended,
\* by failure or not.
C8_HandlesScoped ==
    \A v \in Variants :
        /\ Cardinality(handles[v]) <= 1
        /\ pc[v].at \in {"body", "exit"} => handles[v] = {ReadOrder(v)[pc[v].k]}
        /\ pc[v].at \notin {"body", "exit"} => handles[v] = {}

C8_Witness ==
    /\ pc["A"].at = "halted"
    /\ exc["A"] = "UnicodeDecodeError"
    /\ Len(opened["A"]) = 4
    /\ handles["A"] = {}
    /\ pc["B"].at = "done"

\* C9: the files are opened in the order README.md, requirements.txt,
\* requirements-dev.txt, (variant A) project/__init__.py, each at most once;
\* setup() is called at most once, and only after every file was read and
\* (variant A) the match was found; once a step has failed nothing further
\* happens in that script but the closing of the file that is open.
C9_Inv ==
    \A v \in Variants :
        /\ IsPrefix(opened[v], ReadOrder(v))
        /\ Len(setup_calls[v]) <= 1
        /\ long_description[v] /= Unbound => Len(opened[v]) >= 1
        /\ requirements[v] /= Unbound => Len(opened[v]) >= 2 /\ long_description[v] /= Unbound
        /\ requirements_dev[v] /= Unbound => Len(opened[v]) >= 3 /\ requirements[v] /= Unbound
        /\ version_re[v] /= Unbound => Len(opened[v]) >= 4 /\ requirements_dev[v] /= Unbound
        /\ version[v] /= Unbound => version_re[v] /= Unbound /\ ValueOf(version_re[v]).found
        /\ Called(v) =>
               /\ opened[v] = ReadOrder(v)
               /\ exc[v] = "none"
               /\ pc[v].at = "done"
               /\ v = "A" => version[v] /= Unbound
        /\ exc[v] /= "none" => ~Called(v) /\ pc[v].at \in {"exit", "halted"}

C9_Step ==
    \A v \in Variants :
        /\ exc[v] /= "none" =>
               /\ exc'[v] = exc[v]
               /\ opened'[v] = opened[v]
               /\ setup_calls'[v] = setup_calls[v]
               /\ long_description'[v] = long_description[v]
               /\ requirements'[v] = requirements[v]
               /\ requirements_dev'[v] = requirements_dev[v]
               /\ version_re'[v] = version_re[v]
               /\ version'[v] = version[v]
               /\ pc'[v] /= pc[v] => pc'[v].at = "halted"
        /\ pc[v].at \in {"halted", "done"} => pc'[v] = pc[v] /\ handles'[v] = handles[v]
        /\ Len(opened'[v]) <= Len(opened[v]) + 1

C9_LinearPass == [](C9_Inv) /\ [][C9_Step]_vars

C9_Witness ==
    /\ pc["A"].at = "done"
    /\ opened["A"] = ReadOrder("A")
    /\ Len(setup_calls["A"]) = 1
    /\ pc["B"].at = "done"
    /\ opened["B"] = <<README, REQ, DEV>>

\* C10: no step changes a file, whether the run succeeds or fails; a name,
\* once bound, keeps its value, and setup() receives the values as read.
C10_Step ==
    /\ fs' = fs
    /\ \A v \in Variants :
           /\ long_description[v] /= Unbound => long_description'[v] = long_description[v]
           /\ requirements[v] /= Unbound => requirements'[v] = requirements[v]
           /\ requirements_dev[v] /= Unbound => requirements_dev'[v] = requirements_dev[v]
           /\ version_re[v] /= Unbound => version_re'[v] = version_re[v]
           /\ version[v] /= Unbound => version'[v] = version[v]
           /\ (pc[v].at = "setup" /\ Called(v)') =>
                  /\ setup_calls'[v][1].long_description = ValueOf(long_description[v])
                  /\ setup_calls'[v][1].install_requires = ValueOf(requirements[v])
                  /\ setup_calls'[v][1].tests_require = ValueOf(requirements_dev[v])

C10_InputsUnchanged == [][C10_Step]_vars

C10_Witness ==
    /\ pc["A"].at = "done"
    /\ pc["B"].at = "done"
    /\ fs[README].data /= <<>>
    /\ fs[REQ].data /= <<>>
    /\ fs[INITPY].data /= <<>>

(* ----------------------- the version declaration ------------------------ *)

\* The line of text s that position i lies on, from i to the end of the line.
LineFrom(s, i) ==
    LET E == {j \in i..Len(s) : s[j] = LF}
    IN  SubSeq(s, i, IF E = {} THEN Len(s) ELSE Min(E) - 1)

\* A line that begins __version__ = " and closes the quote on the line.
IsDeclLine(l) ==
    /\ Len(l) > Len(VersionPrefix)
    /\ SubSeq(l, 1, Len(VersionPrefix)) = VersionPrefix
    /\ \E q \in (Len(VersionPrefix) + 1)..Len(l) : l[q] = QUOTE

\* The text between the double quotes of such a line.
ValueOfLine(l) ==
    LET q == Min({j \in (Len(VersionPrefix) + 1)..Len(l) : l[j] = QUOTE})
    IN  SubSeq(l, Len(VersionPrefix) + 1, q - 1)

Digits == {"0", "1", "2", "3", "4", "5", "6", "7", "8", "9"}

\* <digits>.<digits>.<digits>
IsTriple(val) ==
    \E a, b \in 1..Len(val) :
        /\ 1 < a /\ a + 1 < b /\ b < Len(val)
        /\ val[a] = "." /\ val[b] = "."
        /\ \A j \in (1..Len(val)) \ {a, b} : val[j] \in Digits

\* C2: variant A, the line on which the first match of the pattern starts has
\* the form __version__ = "<digits>.<digits>.<digits>": the version bound, and
\* passed to setup(), is exactly the text between the quotes of that line.
C2_VersionIsQuotedSubstring ==
    (version_re["A"] /= Unbound /\ ValueOf(version_re["A"]).found) =>
        LET l == LineFrom(ReadText(fs[INITPY]), ValueOf(version_re["A"]).start)
        IN  (IsDeclLine(l) /\ IsTriple(ValueOfLine(l))) =>
                /\ ValueOf(version_re["A"]).group1 = ValueOfLine(l)
                /\ version["A"] /= Unbound => version["A"] = Bound(ValueOfLine(l))
                /\ Called("A") => setup_calls["A"][1].version = ValueOfLine(l)

C2_Witness ==
    /\ Called("A")
    /\ setup_calls["A"][1].version = V0102
    /\ fs[INITPY] = Ok(JoinLines(<<OtherLine, Decl(V0102), Decl(V123)>>, <<CR, LF>>))

DeclLines(ls) == {n \in 1..Len(ls) : IsDeclLine(ls[n])}

\* C7: variant A, project/__init__.py holds several lines of the form
\* __version__ = "<value>": the version passed to setup() is the value of the
\* first of them, and the match starts at the start of a line.
C7_FirstDeclarationLineWins ==
    Called("A") =>
        LET ls == FileLines(fs[INITPY].data)
            m == ValueOf(version_re["A"])
            text == ReadText(fs[INITPY])
        IN  /\ Cardinality(DeclLines(ls)) >= 2 =>
                   setup_calls["A"][1].version = ValueOfLine(ls[Min(DeclLines(ls))])
            /\ m.start = 1 \/ text[m.start - 1] = LF

\* C7 kept to files in which every line that begins __version__ = " closes the
\* quote on the same line.
FirstDeclarationLineWinsWhenQuotesClose ==
    Called("A") =>
        LET ls == FileLines(fs[INITPY].data)
            m == ValueOf(version_re["A"])
            text == ReadText(fs[INITPY])
        IN  /\ (/\ DeclLines(ls) /= {}
                /\ \A n \in 1..Len(ls) :
                       (Len(ls[n]) >= Len(VersionPrefix)
                            /\ SubSeq(ls[n], 1, Len(VersionPrefix)) = VersionPrefix)
                           => IsDeclLine(ls[n])) =>
                   setup_calls["A"][1].version = ValueOfLine(ls[Min(DeclLines(ls))])
            /\ m.start = 1 \/ text[m.start - 1] = LF

====
